---------------------------- MODULE Spec2Model ----------------------------
(***************************************************************************)
(* State-machine model of the simul front end (mdel2424/simul).            *)
(*                                                                         *)
(* The repository holds four variants of the root component App and the   *)
(* AudioUploader widget:                                                   *)
(*   "offset"  : src/unnamed/part_001, lines 30-527 (prepare / adjust /   *)
(*               finalize workflow)                                        *)
(*   "polling" : src/frontend/src/App.jsx, lines 1-171 (process, then     *)
(*               poll the job status), with two AudioUploader children    *)
(*   "blob"    : src/frontend/src/App.jsx, lines 172-383 (process-audio   *)
(*               answered with the audio blob)                             *)
(*   "ts"      : src/unnamed/part_000 (TypeScript, process-audio)         *)
(* One variant is mounted in a run; Init chooses which.  Every event      *)
(* handler, every continuation after an await, every FileReader callback  *)
(* and every timer callback is one action.  The server is the             *)
(* environment: it answers a request in flight at any time, in any order, *)
(* with success or with a failure.                                         *)
(***************************************************************************)
EXTENDS Integers, FiniteSets, Sequences, TLC

(* ------------------------------ bounds -------------------------------- *)
\* requests sent in one run
MaxRequests == 4
\* largest |offset| reached by nudging, in quarter beats (rounded)
MaxOffset == 2
\* AudioUploader object URLs are counted up to this number
MaxUrls == 3

(* ------------------------------ values -------------------------------- *)
\* JavaScript null for a File, a processing id / job id, a URL
NoFile == "null"
NoId == 0
NoUrl == 0
NoError == "null"
\* a preview URL: the job whose preview it is, and the ?t= stamp (0: none)
NoPreview == [job |-> 0, t |-> 0]

VocalFiles == {"v1.mp3", "v2.wav"}
BeatFiles == {"b1.mp3"}
Keys == {"", "Am"}
Bpms == {"", "120"}
(* --------------------------- offsets ---------------------------------- *)
\* offsetBeats is a JavaScript number (an IEEE-754 double), written here as
\* JavaScript prints it (and as FormData.append sends it).
Zero == "0"

\* offset_beats values of a prepare response
ServerOffsets == {"0", "0.1"}

\* The doubles x that offsetBeats takes, each with the doubles x + 0.25 and
\* x - 0.25 (rounded to nearest, ties to even) and with 4x rounded to an integer.
DoubleRows ==
    {<<"-1.25", "-1", "-1.5", -5>>,
     <<"-1.15", "-0.8999999999999999", "-1.4", -5>>,
     <<"-1", "-0.75", "-1.25", -4>>,
     <<"-0.9", "-0.65", "-1.15", -4>>,
     <<"-0.8999999999999999", "-0.6499999999999999", "-1.15", -4>>,
     <<"-0.75", "-0.5", "-1", -3>>,
     <<"-0.65", "-0.4", "-0.9", -3>>,
     <<"-0.6499999999999999", "-0.3999999999999999", "-0.8999999999999999", -3>>,
     <<"-0.5", "-0.25", "-0.75", -2>>,
     <<"-0.4", "-0.15000000000000002", "-0.65", -2>>,
     <<"-0.3999999999999999", "-0.1499999999999999", "-0.6499999999999999", -2>>,
     <<"-0.25", "0", "-0.5", -1>>,
     <<"-0.15000000000000002", "0.09999999999999998", "-0.4", -1>>,
     <<"-0.15", "0.1", "-0.4", -1>>,
     <<"-0.1499999999999999", "0.10000000000000009", "-0.3999999999999999", -1>>,
     <<"0", "0.25", "-0.25", 0>>,
     <<"0.09999999999999998", "0.35", "-0.15000000000000002", 0>>,
     <<"0.1", "0.35", "-0.15", 0>>,
     <<"0.10000000000000009", "0.3500000000000001", "-0.1499999999999999", 0>>,
     <<"0.25", "0.5", "0", 1>>,
     <<"0.35", "0.6", "0.09999999999999998", 1>>,
     <<"0.3500000000000001", "0.6000000000000001", "0.10000000000000009", 1>>,
     <<"0.5", "0.75", "0.25", 2>>,
     <<"0.6", "0.85", "0.35", 2>>,
     <<"0.6000000000000001", "0.8500000000000001", "0.3500000000000001", 2>>,
     <<"0.75", "1", "0.5", 3>>,
     <<"0.85", "1.1", "0.6", 3>>,
     <<"0.8500000000000001", "1.1", "0.6000000000000001", 3>>,
     <<"1", "1.25", "0.75", 4>>,
     <<"1.1", "1.35", "0.8500000000000001", 4>>,
     <<"1.25", "1.5", "1", 5>>,
     <<"1.35", "1.6", "1.1", 5>>}

DoubleRow(x) == CHOOSE row \in DoubleRows : row[1] = x

\* offsetBeats + (direction * 0.25), direction being 1 or -1
AddQuarter(x, direction) ==
    IF direction = 1 THEN DoubleRow(x)[2] ELSE DoubleRow(x)[3]

\* the offset in whole quarter beats, to the nearest
QuarterBeats(x) == DoubleRow(x)[4]


Variants == {"offset", "polling", "blob", "ts"}

VARIABLES
    app,            \* the variant that is mounted
    mounted,        \* FALSE after the component was torn down
    \* state of the offset / blob / ts variants (useState cells)
    vocalAudio, beatAudio, vocalKey, beatKey, vocalBpm, beatBpm,
    isProcessing, processedAudio, error,
    processingId, offsetBeats, previewUrl, isAdjusting, isMerging,
    isPreviewMode,
    \* state of the polling variant
    vocalFile, beatFile, processing, jobId, status, downloadUrl,
    timers,         \* pending setTimeout callbacks (job ids)
    uploaderUrls,   \* object URLs created by AudioUploader renders, none revoked
    \* the environment
    inflight,       \* requests sent and not yet answered
    reqCount,       \* requests sent so far
    jobs,           \* jobs the server has created so far
    readers,        \* FileReader reads started and not yet loaded
    objectUrls,     \* created object URL |-> number of times it was revoked
    \* history
    lastOp,         \* the operation that ran last
    lastPrepared,   \* processing_id of the most recent successful prepare response
    finalized,      \* the last finalize of the job succeeded, no reset / submit since
    pollEnded,      \* jobs whose polling has ended (polling variant)
    nudgeBase,      \* the offset set by the last prepare response or reset
    nudgeNet,       \* nudges accepted since: forward minus backward
    ackOffset       \* the offset the server last acknowledged for the current job

formVars == <<vocalAudio, beatAudio, vocalKey, beatKey, vocalBpm, beatBpm>>
flowVars == <<isProcessing, processedAudio, error, processingId, offsetBeats,
              previewUrl, isAdjusting, isMerging, isPreviewMode>>
pollVars == <<vocalFile, beatFile, processing, jobId, status, downloadUrl,
              timers, uploaderUrls>>
envVars == <<inflight, reqCount, jobs, readers, objectUrls>>
nudgeHist == <<nudgeBase, nudgeNet>>
histVars == <<lastPrepared, finalized, pollEnded, nudgeHist, ackOffset>>
vars == <<app, mounted, formVars, flowVars, pollVars, envVars, histVars, lastOp>>

(* ----------------------------- requests ------------------------------- *)
\* What the offset variant displays: the upload form, the preview panel or
\* the Final Mix panel.
Mode ==
    IF isPreviewMode THEN "preview"
    ELSE IF processedAudio # NoUrl THEN "final" ELSE "form"

\* A request in flight: its FormData and where it goes.  mode records what
\* was displayed when it was sent (history, not sent).
Request(kind, vocal, beat, fields, pid, offset) ==
    [id |-> reqCount + 1, kind |-> kind, vocal |-> vocal, beat |-> beat,
     fields |-> fields, pid |-> pid, offset |-> offset, mode |-> Mode]

CanSend == reqCount < MaxRequests

OfKind(kind) == {r \in inflight : r.kind = kind}

(* --------------------------- object URLs ------------------------------ *)
\* URL.createObjectURL: a fresh URL, named by the request that produced the blob
CreateObjectURL(urls, u) == (u :> 0) @@ urls

\* URL.revokeObjectURL
RevokeObjectURL(urls, u) == [urls EXCEPT ![u] = @ + 1]

\* The effect of part_001:224-230: its cleanup runs when processedAudio
\* changes and revokes the value the effect was created with.
EffectCleanup(urls, old, new) ==
    IF old # NoUrl /\ old # new THEN RevokeObjectURL(urls, old) ELSE urls

(* ------------------- offset variant: what is displayed ---------------- *)
FormShown == ~isPreviewMode /\ processedAudio = NoUrl

PreviewShown == isPreviewMode /\ previewUrl # NoPreview

FinalShown == processedAudio # NoUrl /\ ~isProcessing /\ ~isPreviewMode

\* faulty version: the button without `|| isProcessing`
SubmitDisabledWhileIdleOnly == vocalAudio = NoFile \/ beatAudio = NoFile

\* disabled={!vocalAudio || !beatAudio || isProcessing}
SubmitDisabled == vocalAudio = NoFile \/ beatAudio = NoFile \/ isProcessing

(* ------------------- offset variant: the form ------------------------- *)
HandleVocalAudioChange(f) ==
    /\ app = "offset" /\ mounted /\ FormShown
    /\ vocalAudio' = f
    /\ lastOp' = "selectVocal"
    /\ UNCHANGED <<app, mounted, beatAudio, vocalKey, beatKey, vocalBpm, beatBpm,
                   flowVars, pollVars, envVars, histVars>>

HandleBeatAudioChange(f) ==
    /\ app = "offset" /\ mounted /\ FormShown
    /\ beatAudio' = f
    /\ lastOp' = "selectBeat"
    /\ UNCHANGED <<app, mounted, vocalAudio, vocalKey, beatKey, vocalBpm, beatBpm,
                   flowVars, pollVars, envVars, histVars>>

SetVocalKey(k) ==
    /\ app = "offset" /\ mounted /\ FormShown
    /\ vocalKey' = k
    /\ lastOp' = "setVocalKey"
    /\ UNCHANGED <<app, mounted, vocalAudio, beatAudio, beatKey, vocalBpm, beatBpm,
                   flowVars, pollVars, envVars, histVars>>

SetBeatKey(k) ==
    /\ app = "offset" /\ mounted /\ FormShown
    /\ beatKey' = k
    /\ lastOp' = "setBeatKey"
    /\ UNCHANGED <<app, mounted, vocalAudio, beatAudio, vocalKey, vocalBpm, beatBpm,
                   flowVars, pollVars, envVars, histVars>>

SetVocalBpm(b) ==
    /\ app = "offset" /\ mounted /\ FormShown
    /\ vocalBpm' = b
    /\ lastOp' = "setVocalBpm"
    /\ UNCHANGED <<app, mounted, vocalAudio, beatAudio, vocalKey, beatKey, beatBpm,
                   flowVars, pollVars, envVars, histVars>>

SetBeatBpm(b) ==
    /\ app = "offset" /\ mounted /\ FormShown
    /\ beatBpm' = b
    /\ lastOp' = "setBeatBpm"
    /\ UNCHANGED <<app, mounted, vocalAudio, beatAudio, vocalKey, beatKey, vocalBpm,
                   flowVars, pollVars, envVars, histVars>>

\* faulty version: formData.append(name, value) without the if
OptionalFieldAlways(name, value) == {<<name, value>>}

\* formData.append(name, value) only when the value is truthy (non-empty)
OptionalField(name, value) == IF value # "" THEN {<<name, value>>} ELSE {}

PrepareFields ==
    OptionalField("vocal_key", vocalKey) \cup OptionalField("beat_key", beatKey)
    \cup OptionalField("vocal_bpm", vocalBpm) \cup OptionalField("beat_bpm", beatBpm)

\* handleSubmit up to its await
HandleSubmit ==
    IF vocalAudio = NoFile \/ beatAudio = NoFile
    THEN UNCHANGED <<flowVars, envVars, histVars>>
    ELSE /\ CanSend
         /\ isProcessing' = TRUE
         /\ error' = NoError
         /\ processedAudio' = NoUrl
         /\ isPreviewMode' = FALSE
         /\ objectUrls' = EffectCleanup(objectUrls, processedAudio, NoUrl)
         /\ inflight' = inflight \cup
                {Request("prepare", vocalAudio, beatAudio, PrepareFields, NoId, Zero)}
         /\ reqCount' = reqCount + 1
         /\ finalized' = FALSE
         /\ UNCHANGED <<processingId, offsetBeats, previewUrl, isAdjusting,
                        isMerging, jobs, readers, lastPrepared, pollEnded,
                        nudgeHist,
                   ackOffset>>

ClickSubmit ==
    /\ app = "offset" /\ mounted /\ FormShown /\ ~SubmitDisabled
    /\ HandleSubmit
    /\ lastOp' = "submit"
    /\ UNCHANGED <<app, mounted, formVars, pollVars>>

(* ------------------- offset variant: error handling ------------------- *)
\* What a failed request looks like to the catch block:
\*   "network"  : no err.response (transport failure)
\*   "json"     : err.response.data is a parsed JSON body
\*   "blobJson" : err.response.data is a Blob holding JSON (responseType blob)
\*   "blobText" : err.response.data is a Blob that JSON.parse rejects
Failures(kind) ==
    IF kind \in {"finalize", "process"} THEN {"network", "blobJson", "blobText"}
    ELSE {"network", "json"}

ServerErrorMsg == "Server error: details"
ErrorMsg == "Error: details"
ProcessingErrorMsg == "Error processing audio: message"

\* handleApiError: the error text it sets at once (NoError: none, a FileReader
\* was started instead)
ApiErrorText(f) ==
    CASE f = "json" -> ErrorMsg
      [] f = "network" -> ProcessingErrorMsg
      [] OTHER -> NoError

\* handleApiError: the FileReader it starts
ApiErrorReader(r, f) ==
    IF f \in {"blobJson", "blobText"}
    THEN {[id |-> r.id, valid |-> (f = "blobJson"), guarded |-> TRUE]}
    ELSE {}

HandleApiError(r, f) ==
    /\ error' = IF mounted /\ ApiErrorText(f) # NoError THEN ApiErrorText(f) ELSE error
    /\ readers' = readers \cup ApiErrorReader(r, f)

\* reader.onload of handleApiError: the text it sets
ReaderText(rd) == IF rd.valid THEN ServerErrorMsg ELSE ProcessingErrorMsg

ReaderLoads(rd) ==
    /\ app = "offset"
    /\ rd \in readers
    /\ readers' = readers \ {rd}
    /\ error' = IF mounted THEN ReaderText(rd) ELSE error
    /\ lastOp' = "readerLoads"
    /\ UNCHANGED <<app, mounted, formVars, pollVars, histVars,
                   isProcessing, processedAudio, processingId, offsetBeats,
                   previewUrl, isAdjusting, isMerging, isPreviewMode,
                   inflight, reqCount, jobs, objectUrls>>

(* ------------------- offset variant: prepare-audio -------------------- *)
\* response.data of a successful prepare-audio: the server may leave out
\* processing_id or offset_beats
PrepareResponses ==
    [hasId : BOOLEAN, hasOffset : BOOLEAN, offset_beats : ServerOffsets]

\* response.data.offset_beats || 0
OffsetOrZero(resp) == IF resp.hasOffset THEN resp.offset_beats ELSE Zero

\* the continuation of handleSubmit after a successful await
PrepareSucceeds(r, resp) ==
    /\ app = "offset"
    /\ r \in OfKind("prepare")
    /\ resp \in PrepareResponses
    /\ inflight' = inflight \ {r}
    /\ jobs' = jobs + 1
    /\ lastPrepared' = IF resp.hasId THEN jobs + 1 ELSE NoId
    /\ IF mounted
       THEN /\ processingId' = IF resp.hasId THEN jobs + 1 ELSE NoId
            /\ previewUrl' = [job |-> jobs + 1, t |-> 0]
            /\ offsetBeats' = OffsetOrZero(resp)
            /\ isPreviewMode' = TRUE
            /\ isProcessing' = FALSE
            /\ nudgeBase' = OffsetOrZero(resp)
            /\ nudgeNet' = 0
            /\ ackOffset' = OffsetOrZero(resp)
       ELSE UNCHANGED <<processingId, previewUrl, offsetBeats, isPreviewMode,
                        isProcessing, nudgeHist,
                   ackOffset>>
    /\ lastOp' = "prepareOk"
    /\ UNCHANGED <<app, mounted, formVars, pollVars, processedAudio, error,
                   isAdjusting, isMerging, reqCount, readers, objectUrls,
                   finalized, pollEnded>>

\* the catch block of handleSubmit
PrepareFails(r, f) ==
    /\ app = "offset"
    /\ r \in OfKind("prepare")
    /\ f \in Failures("prepare")
    /\ inflight' = inflight \ {r}
    /\ HandleApiError(r, f)
    /\ isProcessing' = IF mounted THEN FALSE ELSE isProcessing
    /\ lastOp' = "prepareFailed"
    /\ UNCHANGED <<app, mounted, formVars, pollVars, histVars, processedAudio,
                   processingId, offsetBeats, previewUrl, isAdjusting, isMerging,
                   isPreviewMode, reqCount, jobs, objectUrls>>

(* ------------------- offset variant: adjust-offset -------------------- *)
\* faulty version: handleOffsetChange without its `if (!processingId) return`
HandleOffsetChangeNoGuard(newOffset) ==
    /\ CanSend
    /\ isAdjusting' = TRUE
    /\ offsetBeats' = newOffset
    /\ inflight' = inflight \cup
           {Request("adjust", NoFile, NoFile, {}, processingId, newOffset)}
    /\ reqCount' = reqCount + 1
    /\ UNCHANGED <<isProcessing, processedAudio, error, processingId,
                   previewUrl, isMerging, isPreviewMode, jobs, readers,
                   objectUrls>>

\* handleOffsetChange up to its await
HandleOffsetChange(newOffset) ==
    IF processingId = NoId
    THEN UNCHANGED <<flowVars, envVars>>
    ELSE /\ CanSend
         /\ isAdjusting' = TRUE
         /\ offsetBeats' = newOffset
         /\ inflight' = inflight \cup
                {Request("adjust", NoFile, NoFile, {}, processingId, newOffset)}
         /\ reqCount' = reqCount + 1
         /\ UNCHANGED <<isProcessing, processedAudio, error, processingId,
                        previewUrl, isMerging, isPreviewMode, jobs, readers,
                        objectUrls>>

\* handleQuarterBeatAdjustment: offsetBeats + (direction * 0.25)
HandleQuarterBeatAdjustment(direction) ==
    HandleOffsetChange(AddQuarter(offsetBeats, direction))

\* the backward / forward buttons, disabled while isAdjusting
ClickNudge(direction) ==
    /\ app = "offset" /\ mounted /\ PreviewShown /\ ~isAdjusting
    /\ QuarterBeats(offsetBeats) + direction \in -MaxOffset..MaxOffset
    /\ HandleQuarterBeatAdjustment(direction)
    /\ nudgeNet' = IF offsetBeats' = offsetBeats THEN nudgeNet ELSE nudgeNet + direction
    /\ lastOp' = "nudge"
    /\ UNCHANGED <<app, mounted, formVars, pollVars, lastPrepared, finalized,
                   pollEnded, nudgeBase, ackOffset>>

\* resetOffset, behind a button disabled while isAdjusting or at offset 0
ClickResetOffset ==
    /\ app = "offset" /\ mounted /\ PreviewShown
    /\ ~(isAdjusting \/ offsetBeats = Zero)
    /\ HandleOffsetChange(Zero)
    /\ nudgeBase' = IF offsetBeats' = Zero THEN Zero ELSE nudgeBase
    /\ nudgeNet' = IF offsetBeats' = Zero THEN 0 ELSE nudgeNet
    /\ lastOp' = "resetOffset"
    /\ UNCHANGED <<app, mounted, formVars, pollVars, lastPrepared, finalized,
                   pollEnded, ackOffset>>

\* the continuation of handleOffsetChange after a successful await
AdjustSucceeds(r) ==
    /\ app = "offset"
    /\ r \in OfKind("adjust")
    /\ inflight' = inflight \ {r}
    /\ IF mounted
       THEN /\ previewUrl' = [job |-> r.pid, t |-> r.id]
            /\ isAdjusting' = FALSE
       ELSE UNCHANGED <<previewUrl, isAdjusting>>
    /\ ackOffset' = IF mounted /\ r.pid = processingId THEN r.offset ELSE ackOffset
    /\ lastOp' = "adjustOk"
    /\ UNCHANGED <<app, mounted, formVars, pollVars, lastPrepared, finalized,
                   pollEnded, nudgeHist, isProcessing,
                   processedAudio, error, processingId, offsetBeats, isMerging,
                   isPreviewMode, reqCount, jobs, readers, objectUrls>>

\* the catch block of handleOffsetChange
AdjustFails(r, f) ==
    /\ app = "offset"
    /\ r \in OfKind("adjust")
    /\ f \in Failures("adjust")
    /\ inflight' = inflight \ {r}
    /\ HandleApiError(r, f)
    /\ isAdjusting' = IF mounted THEN FALSE ELSE isAdjusting
    /\ lastOp' = "adjustFailed"
    /\ UNCHANGED <<app, mounted, formVars, pollVars, histVars, isProcessing,
                   processedAudio, processingId, offsetBeats, previewUrl,
                   isMerging, isPreviewMode, reqCount, jobs, objectUrls>>

(* ------------------- offset variant: finalize-mix --------------------- *)
\* faulty version: handleFinalizeMix without its `if (!processingId) return`
HandleFinalizeMixNoGuard ==
    /\ CanSend
    /\ isMerging' = TRUE
    /\ inflight' = inflight \cup
           {Request("finalize", NoFile, NoFile, {}, processingId, Zero)}
    /\ reqCount' = reqCount + 1
    /\ UNCHANGED <<isProcessing, processedAudio, error, processingId,
                   offsetBeats, previewUrl, isAdjusting, isPreviewMode,
                   jobs, readers, objectUrls>>

\* handleFinalizeMix up to its await
HandleFinalizeMix ==
    IF processingId = NoId
    THEN UNCHANGED <<flowVars, envVars>>
    ELSE /\ CanSend
         /\ isMerging' = TRUE
         /\ inflight' = inflight \cup
                {Request("finalize", NoFile, NoFile, {}, processingId, Zero)}
         /\ reqCount' = reqCount + 1
         /\ UNCHANGED <<isProcessing, processedAudio, error, processingId,
                        offsetBeats, previewUrl, isAdjusting, isPreviewMode,
                        jobs, readers, objectUrls>>

\* the Finalize Mix button, disabled while isMerging
ClickFinalize ==
    /\ app = "offset" /\ mounted /\ PreviewShown /\ ~isMerging
    /\ HandleFinalizeMix
    /\ lastOp' = "finalize"
    /\ UNCHANGED <<app, mounted, formVars, pollVars, histVars>>

\* faulty version: the continuation without setIsPreviewMode(false)
FinalizeSucceedsKeepsPreview(r) ==
    /\ app = "offset"
    /\ r \in OfKind("finalize")
    /\ inflight' = inflight \ {r}
    /\ IF mounted
       THEN /\ processedAudio' = r.id
            /\ isMerging' = FALSE
            /\ objectUrls' = EffectCleanup(CreateObjectURL(objectUrls, r.id),
                                           processedAudio, r.id)
       ELSE /\ objectUrls' = CreateObjectURL(objectUrls, r.id)
            /\ UNCHANGED <<processedAudio, isMerging>>
    /\ finalized' = TRUE
    /\ lastOp' = "finalizeOk"
    /\ UNCHANGED <<app, mounted, formVars, pollVars, isProcessing, error,
                   processingId, offsetBeats, previewUrl, isAdjusting,
                   isPreviewMode, reqCount, jobs, readers, lastPrepared,
                   pollEnded, nudgeHist,
                   ackOffset>>

\* the continuation of handleFinalizeMix after a successful await: the object
\* URL is created whether or not the component is still mounted
FinalizeSucceeds(r) ==
    /\ app = "offset"
    /\ r \in OfKind("finalize")
    /\ inflight' = inflight \ {r}
    /\ IF mounted
       THEN /\ processedAudio' = r.id
            /\ isPreviewMode' = FALSE
            /\ isMerging' = FALSE
            /\ objectUrls' = EffectCleanup(CreateObjectURL(objectUrls, r.id),
                                           processedAudio, r.id)
       ELSE /\ objectUrls' = CreateObjectURL(objectUrls, r.id)
            /\ UNCHANGED <<processedAudio, isPreviewMode, isMerging>>
    /\ finalized' = TRUE
    /\ lastOp' = "finalizeOk"
    /\ UNCHANGED <<app, mounted, formVars, pollVars, isProcessing, error,
                   processingId, offsetBeats, previewUrl, isAdjusting,
                   reqCount, jobs, readers, lastPrepared, pollEnded,
                   nudgeHist,
                   ackOffset>>

\* the catch block of handleFinalizeMix
FinalizeFails(r, f) ==
    /\ app = "offset"
    /\ r \in OfKind("finalize")
    /\ f \in Failures("finalize")
    /\ inflight' = inflight \ {r}
    /\ HandleApiError(r, f)
    /\ isMerging' = IF mounted THEN FALSE ELSE isMerging
    /\ finalized' = FALSE
    /\ lastOp' = "finalizeFailed"
    /\ UNCHANGED <<app, mounted, formVars, pollVars, isProcessing,
                   processedAudio, processingId, offsetBeats, previewUrl,
                   isAdjusting, isPreviewMode, reqCount, jobs, objectUrls,
                   lastPrepared, pollEnded, nudgeHist,
                   ackOffset>>

(* ------------------- offset variant: New Mix, teardown ---------------- *)
\* the onClick of the New Mix button
NewMix ==
    /\ isPreviewMode' = FALSE
    /\ processedAudio' = NoUrl
    /\ processingId' = NoId
    /\ previewUrl' = NoPreview
    /\ offsetBeats' = Zero
    /\ objectUrls' = EffectCleanup(objectUrls, processedAudio, NoUrl)
    /\ UNCHANGED <<formVars, isProcessing, error, isAdjusting, isMerging,
                   inflight, reqCount, jobs, readers>>

ClickNewMix ==
    /\ app = "offset" /\ mounted /\ FinalShown
    /\ NewMix
    /\ finalized' = FALSE
    /\ nudgeBase' = Zero
    /\ nudgeNet' = 0
    /\ ackOffset' = Zero
    /\ lastOp' = "newMix"
    /\ UNCHANGED <<app, mounted, pollVars, lastPrepared, pollEnded>>

\* The object URLs the teardown of a variant revokes: only the offset variant
\* has a cleanup (part_001:224-230), for the current processedAudio.
TeardownUrls ==
    IF app = "offset" THEN EffectCleanup(objectUrls, processedAudio, NoUrl)
    ELSE objectUrls

Unmount ==
    /\ mounted
    /\ mounted' = FALSE
    /\ objectUrls' = TeardownUrls
    /\ lastOp' = "unmount"
    /\ UNCHANGED <<app, formVars, flowVars, pollVars, histVars, inflight,
                   reqCount, jobs, readers>>

(* ------------------- blob variant (App.jsx:186-383) ------------------- *)
BlobHandleVocalAudioChange(f) ==
    /\ app = "blob" /\ mounted
    /\ vocalAudio' = f
    /\ lastOp' = "selectVocal"
    /\ UNCHANGED <<app, mounted, beatAudio, vocalKey, beatKey, vocalBpm, beatBpm,
                   flowVars, pollVars, envVars, histVars>>

BlobHandleBeatAudioChange(f) ==
    /\ app = "blob" /\ mounted
    /\ beatAudio' = f
    /\ lastOp' = "selectBeat"
    /\ UNCHANGED <<app, mounted, vocalAudio, vocalKey, beatKey, vocalBpm, beatBpm,
                   flowVars, pollVars, envVars, histVars>>

\* handleSubmit up to its await
BlobHandleSubmit ==
    IF vocalAudio = NoFile \/ beatAudio = NoFile
    THEN UNCHANGED <<flowVars, envVars>>
    ELSE /\ CanSend
         /\ isProcessing' = TRUE
         /\ error' = NoError
         /\ processedAudio' = NoUrl
         /\ inflight' = inflight \cup
                {Request("process", vocalAudio, beatAudio, {}, NoId, Zero)}
         /\ reqCount' = reqCount + 1
         /\ UNCHANGED <<processingId, offsetBeats, previewUrl, isAdjusting,
                        isMerging, isPreviewMode, jobs, readers, objectUrls>>

\* the Process Audio Files button
BlobClickSubmit ==
    /\ app = "blob" /\ mounted /\ ~SubmitDisabled
    /\ BlobHandleSubmit
    /\ lastOp' = "submit"
    /\ UNCHANGED <<app, mounted, formVars, pollVars, histVars>>

\* A 2xx answer: the audio, a JSON error body (content-type application/json,
\* valid or not), or an answer without a content-type header (the .includes
\* call throws and the catch block runs with no err.response).
BlobAnswers == {"audio", "json", "badJson", "noContentType"}

BlobProcessSucceeds(r, a) ==
    /\ app = "blob"
    /\ r \in OfKind("process")
    /\ a \in BlobAnswers
    /\ inflight' = inflight \ {r}
    /\ objectUrls' = IF a = "audio" THEN CreateObjectURL(objectUrls, r.id)
                     ELSE objectUrls
    /\ readers' = IF a \in {"json", "badJson"}
                  THEN readers \cup
                        {[id |-> r.id, valid |-> (a = "json"), guarded |-> FALSE]}
                  ELSE readers
    /\ IF mounted
       THEN /\ processedAudio' = IF a = "audio" THEN r.id ELSE processedAudio
            /\ error' = IF a = "noContentType" THEN ProcessingErrorMsg ELSE error
            /\ isProcessing' = FALSE
       ELSE UNCHANGED <<processedAudio, error, isProcessing>>
    /\ lastOp' = "processOk"
    /\ UNCHANGED <<app, mounted, formVars, pollVars, histVars, processingId,
                   offsetBeats, previewUrl, isAdjusting, isMerging,
                   isPreviewMode, reqCount, jobs>>

\* the catch block of handleSubmit
BlobProcessFails(r, f) ==
    /\ app = "blob"
    /\ r \in OfKind("process")
    /\ f \in Failures("process")
    /\ inflight' = inflight \ {r}
    /\ HandleApiError(r, f)
    /\ isProcessing' = IF mounted THEN FALSE ELSE isProcessing
    /\ lastOp' = "processFailed"
    /\ UNCHANGED <<app, mounted, formVars, pollVars, histVars, processedAudio,
                   processingId, offsetBeats, previewUrl, isAdjusting, isMerging,
                   isPreviewMode, reqCount, jobs, objectUrls>>

\* reader.onload: of the 2xx JSON branch (JSON.parse is not guarded there: a
\* body that does not parse throws and sets nothing) or of the catch block
BlobReaderLoads(rd) ==
    /\ app = "blob"
    /\ rd \in readers
    /\ readers' = readers \ {rd}
    /\ error' = IF mounted /\ (rd.valid \/ rd.guarded) THEN ReaderText(rd) ELSE error
    /\ lastOp' = "readerLoads"
    /\ UNCHANGED <<app, mounted, formVars, pollVars, histVars,
                   isProcessing, processedAudio, processingId, offsetBeats,
                   previewUrl, isAdjusting, isMerging, isPreviewMode,
                   inflight, reqCount, jobs, objectUrls>>

(* ------------------- ts variant (part_000) ---------------------------- *)
TsHandleVocalAudioChange(f) ==
    /\ app = "ts" /\ mounted
    /\ vocalAudio' = f
    /\ lastOp' = "selectVocal"
    /\ UNCHANGED <<app, mounted, beatAudio, vocalKey, beatKey, vocalBpm, beatBpm,
                   flowVars, pollVars, envVars, histVars>>

TsHandleBeatAudioChange(f) ==
    /\ app = "ts" /\ mounted
    /\ beatAudio' = f
    /\ lastOp' = "selectBeat"
    /\ UNCHANGED <<app, mounted, vocalAudio, vocalKey, beatKey, vocalBpm, beatBpm,
                   flowVars, pollVars, envVars, histVars>>

\* handleSubmit up to its await
TsHandleSubmit ==
    IF vocalAudio = NoFile \/ beatAudio = NoFile
    THEN UNCHANGED <<flowVars, envVars>>
    ELSE /\ CanSend
         /\ isProcessing' = TRUE
         /\ error' = NoError
         /\ inflight' = inflight \cup
                {Request("process", vocalAudio, beatAudio, {}, NoId, Zero)}
         /\ reqCount' = reqCount + 1
         /\ UNCHANGED <<processedAudio, processingId, offsetBeats, previewUrl,
                        isAdjusting, isMerging, isPreviewMode, jobs, readers,
                        objectUrls>>

\* the button: disabled={!vocalAudio || !beatAudio}
TsSubmitDisabled == vocalAudio = NoFile \/ beatAudio = NoFile

TsClickSubmit ==
    /\ app = "ts" /\ mounted /\ ~TsSubmitDisabled
    /\ TsHandleSubmit
    /\ lastOp' = "submit"
    /\ UNCHANGED <<app, mounted, formVars, pollVars, histVars>>

TsProcessSucceeds(r) ==
    /\ app = "ts"
    /\ r \in OfKind("process")
    /\ inflight' = inflight \ {r}
    /\ objectUrls' = CreateObjectURL(objectUrls, r.id)
    /\ IF mounted
       THEN processedAudio' = r.id /\ isProcessing' = FALSE
       ELSE UNCHANGED <<processedAudio, isProcessing>>
    /\ lastOp' = "processOk"
    /\ UNCHANGED <<app, mounted, formVars, pollVars, histVars, error,
                   processingId, offsetBeats, previewUrl, isAdjusting, isMerging,
                   isPreviewMode, reqCount, jobs, readers>>

TsErrorMsg == "An error occurred while processing the audio files."

TsProcessFails(r) ==
    /\ app = "ts"
    /\ r \in OfKind("process")
    /\ inflight' = inflight \ {r}
    /\ IF mounted
       THEN error' = TsErrorMsg /\ isProcessing' = FALSE
       ELSE UNCHANGED <<error, isProcessing>>
    /\ lastOp' = "processFailed"
    /\ UNCHANGED <<app, mounted, formVars, pollVars, histVars, processedAudio,
                   processingId, offsetBeats, previewUrl, isAdjusting, isMerging,
                   isPreviewMode, reqCount, jobs, readers, objectUrls>>

(* ------------------- polling variant (App.jsx:1-171) ------------------ *)
PollVocalFiles == {"v1.mp3", "v2.flac"}
PollBeatFiles == {"b1.mp3"}

\* file.type: "v2.flac" stands for a file the browser gives no MIME type
FileType(f) == IF f = "v2.flac" THEN "" ELSE "audio/mpeg"

\* file.type.startsWith('audio/')
IsAudio(f) == FileType(f) = "audio/mpeg"

\* AudioUploader's render (AudioUploader.jsx:74-81): with a file of an audio
\* type it calls URL.createObjectURL, and nothing revokes the URL
UploaderRender(f) == IF f # NoFile /\ IsAudio(f) THEN 1 ELSE 0

\* A render of App renders both AudioUploader children.  The object URLs
\* they have created are counted up to MaxUrls.
Render(urls, vf, bf) ==
    LET n == urls + UploaderRender(vf) + UploaderRender(bf)
    IN  IF n > MaxUrls THEN MaxUrls ELSE n

\* onDrop of the vocal AudioUploader: the drop zone is rendered when there is
\* no file, and useDropzone is disabled while processing
PollHandleVocalUpload(f) ==
    /\ app = "polling" /\ mounted
    /\ vocalFile = NoFile /\ ~processing
    /\ vocalFile' = f
    /\ uploaderUrls' = Render(uploaderUrls, f, beatFile)
    /\ lastOp' = "selectVocal"
    /\ UNCHANGED <<app, mounted, formVars, flowVars, envVars, histVars,
                   beatFile, processing, jobId, status, downloadUrl, timers>>

PollHandleBeatUpload(f) ==
    /\ app = "polling" /\ mounted
    /\ beatFile = NoFile /\ ~processing
    /\ beatFile' = f
    /\ uploaderUrls' = Render(uploaderUrls, vocalFile, f)
    /\ lastOp' = "selectBeat"
    /\ UNCHANGED <<app, mounted, formVars, flowVars, envVars, histVars,
                   vocalFile, processing, jobId, status, downloadUrl, timers>>

\* removeFile: the trash button is rendered with a file and !disabled
PollRemoveVocal ==
    /\ app = "polling" /\ mounted
    /\ vocalFile # NoFile /\ ~processing
    /\ vocalFile' = NoFile
    /\ uploaderUrls' = Render(uploaderUrls, NoFile, beatFile)
    /\ lastOp' = "removeVocal"
    /\ UNCHANGED <<app, mounted, formVars, flowVars, envVars, histVars,
                   beatFile, processing, jobId, status, downloadUrl, timers>>

PollRemoveBeat ==
    /\ app = "polling" /\ mounted
    /\ beatFile # NoFile /\ ~processing
    /\ beatFile' = NoFile
    /\ uploaderUrls' = Render(uploaderUrls, vocalFile, NoFile)
    /\ lastOp' = "removeBeat"
    /\ UNCHANGED <<app, mounted, formVars, flowVars, envVars, histVars,
                   vocalFile, processing, jobId, status, downloadUrl, timers>>

\* faulty version: the button without `processing ||`
PollSubmitDisabledFilesOnly == vocalFile = NoFile \/ beatFile = NoFile

\* disabled={processing || !vocalFile || !beatFile}
PollSubmitDisabled == processing \/ vocalFile = NoFile \/ beatFile = NoFile

UploadBothMsg == "Please upload both vocal and beat files"
ProcessFilesMsg == "Error processing files. Please try again."
ProcessingFailedMsg == "Processing failed"
StatusCheckMsg == "Error checking processing status"

\* handleSubmit up to its await
PollHandleSubmit ==
    IF vocalFile = NoFile \/ beatFile = NoFile
    THEN /\ error' = UploadBothMsg
         /\ UNCHANGED <<processing, status, inflight, reqCount>>
    ELSE /\ CanSend
         /\ processing' = TRUE
         /\ status' = "processing"
         /\ error' = ""
         /\ inflight' = inflight \cup
                {Request("process", vocalFile, beatFile, {}, NoId, Zero)}
         /\ reqCount' = reqCount + 1

\* the submit button of the form
PollClickSubmit ==
    /\ app = "polling" /\ mounted /\ ~PollSubmitDisabled
    /\ PollHandleSubmit
    /\ uploaderUrls' = Render(uploaderUrls, vocalFile, beatFile)
    /\ lastOp' = "submit"
    /\ UNCHANGED <<app, mounted, formVars, histVars, vocalFile, beatFile, jobId,
                   downloadUrl, timers, jobs, readers, objectUrls,
                   isProcessing, processedAudio, processingId, offsetBeats,
                   previewUrl, isAdjusting, isMerging, isPreviewMode>>

\* pollStatus(id) up to its await: GET /status/id
PollStatus(id) == Request("status", NoFile, NoFile, {}, id, Zero)

\* faulty version: the continuation without setJobId
PollProcessSucceedsNoJobId(r) ==
    /\ app = "polling"
    /\ r \in OfKind("process")
    /\ CanSend
    /\ jobs' = jobs + 1
    /\ inflight' = (inflight \ {r}) \cup {PollStatus(jobs + 1)}
    /\ reqCount' = reqCount + 1
    /\ lastOp' = "processOk"
    /\ UNCHANGED <<app, mounted, formVars, flowVars, histVars, vocalFile,
                   beatFile, processing, jobId, status, downloadUrl, timers,
                   uploaderUrls, readers, objectUrls>>

\* the continuation of handleSubmit: setJobId, then pollStatus(job_id)
PollProcessSucceeds(r) ==
    /\ app = "polling"
    /\ r \in OfKind("process")
    /\ CanSend
    /\ jobs' = jobs + 1
    /\ inflight' = (inflight \ {r}) \cup {PollStatus(jobs + 1)}
    /\ reqCount' = reqCount + 1
    /\ IF mounted
       THEN /\ jobId' = jobs + 1
            /\ uploaderUrls' = Render(uploaderUrls, vocalFile, beatFile)
       ELSE UNCHANGED <<jobId, uploaderUrls>>
    /\ lastOp' = "processOk"
    /\ UNCHANGED <<app, mounted, formVars, flowVars, histVars, vocalFile,
                   beatFile, processing, status, downloadUrl, timers, readers,
                   objectUrls>>

\* faulty version: a catch block without setProcessing(false)
PollProcessFailsStaysBusy(r) ==
    /\ app = "polling"
    /\ r \in OfKind("process")
    /\ inflight' = inflight \ {r}
    /\ IF mounted
       THEN /\ error' = ProcessFilesMsg
            /\ status' = "error"
            /\ uploaderUrls' = Render(uploaderUrls, vocalFile, beatFile)
       ELSE UNCHANGED <<error, status, uploaderUrls>>
    /\ lastOp' = "processFailed"
    /\ UNCHANGED <<app, mounted, formVars, histVars, vocalFile, beatFile, jobId,
                   downloadUrl, timers, reqCount, jobs, readers, objectUrls,
                   processing, isProcessing, processedAudio, processingId,
                   offsetBeats, previewUrl, isAdjusting, isMerging, isPreviewMode>>

\* the catch block of handleSubmit
PollProcessFails(r) ==
    /\ app = "polling"
    /\ r \in OfKind("process")
    /\ inflight' = inflight \ {r}
    /\ IF mounted
       THEN /\ error' = ProcessFilesMsg
            /\ status' = "error"
            /\ processing' = FALSE
            /\ uploaderUrls' = Render(uploaderUrls, vocalFile, beatFile)
       ELSE UNCHANGED <<error, status, processing, uploaderUrls>>
    /\ lastOp' = "processFailed"
    /\ UNCHANGED <<app, mounted, formVars, histVars, vocalFile, beatFile, jobId,
                   downloadUrl, timers, reqCount, jobs, readers, objectUrls,
                   isProcessing, processedAudio, processingId, offsetBeats,
                   previewUrl, isAdjusting, isMerging, isPreviewMode>>

\* response.data.status of a status answer
StatusAnswers == {"completed", "processing", "failed"}

\* faulty version: setTimeout(() => pollStatus(id), 2000) after every answer
PollStatusRespondsKeepsPolling(r, st) ==
    /\ app = "polling"
    /\ r \in OfKind("status")
    /\ st \in StatusAnswers
    /\ st = "processing" => CanSend
    /\ inflight' = inflight \ {r}
    /\ pollEnded' = IF st = "processing" THEN pollEnded ELSE pollEnded \cup {r.pid}
    /\ timers' = timers \cup {[job |-> r.pid, by |-> r.id]}
    /\ IF mounted /\ st = "completed"
       THEN /\ status' = "completed"
            /\ processing' = FALSE
            /\ downloadUrl' = r.pid
            /\ error' = error
            /\ uploaderUrls' = Render(uploaderUrls, vocalFile, beatFile)
       ELSE IF mounted /\ st = "failed"
       THEN /\ status' = "error"
            /\ processing' = FALSE
            /\ error' = ProcessingFailedMsg
            /\ downloadUrl' = downloadUrl
            /\ uploaderUrls' = Render(uploaderUrls, vocalFile, beatFile)
       ELSE UNCHANGED <<status, processing, downloadUrl, error, uploaderUrls>>
    /\ lastOp' = "statusOk"
    /\ UNCHANGED <<app, mounted, formVars, lastPrepared, finalized, nudgeHist,
                   ackOffset,
                   vocalFile,
                   beatFile, jobId, reqCount, jobs, readers, objectUrls,
                   isProcessing, processedAudio, processingId, offsetBeats,
                   previewUrl, isAdjusting, isMerging, isPreviewMode>>

\* the continuation of pollStatus after a successful await (a 'processing'
\* answer is followed by one more request, so it counts against MaxRequests)
PollStatusResponds(r, st) ==
    /\ app = "polling"
    /\ r \in OfKind("status")
    /\ st \in StatusAnswers
    /\ st = "processing" => CanSend
    /\ inflight' = inflight \ {r}
    /\ pollEnded' = IF st = "processing" THEN pollEnded ELSE pollEnded \cup {r.pid}
    /\ timers' = IF st = "processing"
                 THEN timers \cup {[job |-> r.pid, by |-> r.id]}
                 ELSE timers
    /\ IF mounted /\ st = "completed"
       THEN /\ status' = "completed"
            /\ processing' = FALSE
            /\ downloadUrl' = r.pid
            /\ error' = error
            /\ uploaderUrls' = Render(uploaderUrls, vocalFile, beatFile)
       ELSE IF mounted /\ st = "failed"
       THEN /\ status' = "error"
            /\ processing' = FALSE
            /\ error' = ProcessingFailedMsg
            /\ downloadUrl' = downloadUrl
            /\ uploaderUrls' = Render(uploaderUrls, vocalFile, beatFile)
       ELSE UNCHANGED <<status, processing, downloadUrl, error, uploaderUrls>>
    /\ lastOp' = "statusOk"
    /\ UNCHANGED <<app, mounted, formVars, lastPrepared, finalized, nudgeHist,
                   ackOffset,
                   vocalFile,
                   beatFile, jobId, reqCount, jobs, readers, objectUrls,
                   isProcessing, processedAudio, processingId, offsetBeats,
                   previewUrl, isAdjusting, isMerging, isPreviewMode>>

\* faulty version: a catch block that polls again
PollStatusFailsRetry(r) ==
    /\ app = "polling"
    /\ r \in OfKind("status")
    /\ CanSend
    /\ inflight' = (inflight \ {r}) \cup {PollStatus(r.pid)}
    /\ reqCount' = reqCount + 1
    /\ lastOp' = "statusFailed"
    /\ UNCHANGED <<app, mounted, formVars, flowVars, histVars, vocalFile,
                   beatFile, processing, jobId, status, downloadUrl, timers,
                   uploaderUrls, jobs, readers, objectUrls>>

\* faulty version: a catch block that only logs the error
PollStatusFailsStaysBusy(r) ==
    /\ app = "polling"
    /\ r \in OfKind("status")
    /\ inflight' = inflight \ {r}
    /\ pollEnded' = pollEnded \cup {r.pid}
    /\ lastOp' = "statusFailed"
    /\ UNCHANGED <<app, mounted, formVars, flowVars, lastPrepared, finalized,
                   nudgeHist, ackOffset, vocalFile, beatFile, processing, jobId,
                   status,
                   downloadUrl, timers, uploaderUrls, reqCount, jobs, readers,
                   objectUrls>>

\* the catch block of pollStatus
PollStatusFails(r) ==
    /\ app = "polling"
    /\ r \in OfKind("status")
    /\ inflight' = inflight \ {r}
    /\ IF mounted
       THEN /\ status' = "error"
            /\ processing' = FALSE
            /\ error' = StatusCheckMsg
            /\ uploaderUrls' = Render(uploaderUrls, vocalFile, beatFile)
       ELSE UNCHANGED <<status, processing, error, uploaderUrls>>
    /\ pollEnded' = pollEnded \cup {r.pid}
    /\ lastOp' = "statusFailed"
    /\ UNCHANGED <<app, mounted, formVars, lastPrepared, finalized, nudgeHist,
                   ackOffset,
                   vocalFile,
                   beatFile, jobId, downloadUrl, timers, reqCount, jobs, readers, objectUrls,
                   isProcessing, processedAudio, processingId, offsetBeats,
                   previewUrl, isAdjusting, isMerging, isPreviewMode>>

\* setTimeout(() => pollStatus(id), 2000) fires
PollTimerFires(t) ==
    /\ app = "polling"
    /\ t \in timers
    /\ CanSend
    /\ timers' = timers \ {t}
    /\ inflight' = inflight \cup {PollStatus(t.job)}
    /\ reqCount' = reqCount + 1
    /\ lastOp' = "timer"
    /\ UNCHANGED <<app, mounted, formVars, flowVars, histVars, vocalFile,
                   beatFile, processing, jobId, status, downloadUrl,
                   uploaderUrls, jobs, readers, objectUrls>>

Init ==
    /\ app \in Variants
    /\ mounted = TRUE
    /\ vocalAudio = NoFile /\ beatAudio = NoFile
    /\ vocalKey = "" /\ beatKey = "" /\ vocalBpm = "" /\ beatBpm = ""
    /\ isProcessing = FALSE /\ processedAudio = NoUrl
    /\ error = IF app = "polling" THEN "" ELSE NoError
    /\ processingId = NoId /\ offsetBeats = Zero /\ previewUrl = NoPreview
    /\ isAdjusting = FALSE /\ isMerging = FALSE /\ isPreviewMode = FALSE
    /\ vocalFile = NoFile /\ beatFile = NoFile /\ processing = FALSE
    /\ jobId = NoId /\ status = "idle" /\ downloadUrl = NoUrl
    /\ timers = {} /\ uploaderUrls = 0
    /\ inflight = {} /\ reqCount = 0 /\ jobs = 0 /\ readers = {}
    /\ objectUrls = <<>>
    /\ lastOp = "mount" /\ lastPrepared = NoId /\ finalized = FALSE
    /\ pollEnded = {} /\ nudgeBase = Zero /\ nudgeNet = 0 /\ ackOffset = Zero

OffsetNext ==
    \/ \E f \in VocalFiles : HandleVocalAudioChange(f)
    \/ \E f \in BeatFiles : HandleBeatAudioChange(f)
    \/ ClickSubmit
    \/ \E r \in inflight, resp \in PrepareResponses : PrepareSucceeds(r, resp)
    \/ \E r \in inflight, f \in Failures("prepare") : PrepareFails(r, f)
    \/ \E d \in {-1, 1} : ClickNudge(d)
    \/ ClickResetOffset
    \/ \E r \in inflight : AdjustSucceeds(r)
    \/ \E r \in inflight, f \in Failures("adjust") : AdjustFails(r, f)
    \/ ClickFinalize
    \/ \E r \in inflight : FinalizeSucceeds(r)
    \/ \E r \in inflight, f \in Failures("finalize") : FinalizeFails(r, f)
    \/ \E rd \in readers : ReaderLoads(rd)
    \/ ClickNewMix

BlobNext ==
    \/ \E f \in VocalFiles : BlobHandleVocalAudioChange(f)
    \/ \E f \in BeatFiles : BlobHandleBeatAudioChange(f)
    \/ BlobClickSubmit
    \/ \E r \in inflight, a \in BlobAnswers : BlobProcessSucceeds(r, a)
    \/ \E r \in inflight, f \in Failures("process") : BlobProcessFails(r, f)
    \/ \E rd \in readers : BlobReaderLoads(rd)

TsNext ==
    \/ \E f \in VocalFiles : TsHandleVocalAudioChange(f)
    \/ \E f \in BeatFiles : TsHandleBeatAudioChange(f)
    \/ TsClickSubmit
    \/ \E r \in inflight : TsProcessSucceeds(r)
    \/ \E r \in inflight : TsProcessFails(r)

PollNext ==
    \/ \E f \in PollVocalFiles : PollHandleVocalUpload(f)
    \/ \E f \in PollBeatFiles : PollHandleBeatUpload(f)
    \/ PollRemoveVocal
    \/ PollRemoveBeat
    \/ PollClickSubmit
    \/ \E r \in inflight : PollProcessSucceeds(r)
    \/ \E r \in inflight : PollProcessFails(r)
    \/ \E r \in inflight, st \in StatusAnswers : PollStatusResponds(r, st)
    \/ \E r \in inflight : PollStatusFails(r)
    \/ \E t \in timers : PollTimerFires(t)

Next == OffsetNext \/ BlobNext \/ TsNext \/ PollNext \/ Unmount

\* The polling variant alone, for its progress: a request in flight is
\* answered in the end, a timer that is armed fires, and (the hypothesis of
\* the progress property) the server does not answer 'processing' for ever.
PollInit == Init /\ app = "polling"

PollLiveNext == PollNext \/ Unmount

ProcessAnswered ==
    \E r \in inflight : PollProcessSucceeds(r) \/ PollProcessFails(r)

TimerFires == \E t \in timers : PollTimerFires(t)

StatusEnds ==
    \E r \in inflight :
        \/ PollStatusFails(r)
        \/ \E st \in StatusAnswers \ {"processing"} : PollStatusResponds(r, st)

\* The offset variant alone, with the key and BPM inputs of its form.
FormInit == Init /\ app = "offset"

FormNext ==
    \/ OffsetNext
    \/ \E k \in Keys : SetVocalKey(k)
    \/ \E k \in Keys : SetBeatKey(k)
    \/ \E b \in Bpms : SetVocalBpm(b)
    \/ \E b \in Bpms : SetBeatBpm(b)
    \/ Unmount

(* ============================== claims ================================ *)
\* operations a user performs (a click, a file selection)
UserOps == {"selectVocal", "selectBeat", "removeVocal", "removeBeat", "submit",
            "nudge", "resetOffset", "finalize", "newMix"}

\* the requests a step sends
Sent == inflight' \ inflight

\* the requests a step answers
Answered == inflight \ inflight'

\* C1: in the offset variant at most one network request is in flight in
\* every reachable state (prepare-audio, adjust-offset and finalize-mix
\* requests never overlap).
C1_SingleRequestInFlight ==
    app = "offset" => Cardinality(inflight) <= 1

\* C2: in the offset variant every adjust-offset and finalize-mix request is
\* sent only after a prepare-audio request has succeeded, and carries the
\* processing id of the most recent successful prepare response.
C2_RequestsCarryCurrentId ==
    [][\A r \in Sent :
          (app = "offset" /\ r.kind \in {"adjust", "finalize"})
              => (r.pid # NoId /\ r.pid = lastPrepared /\ r.pid \in 1..jobs)]_vars

\* C2 witness: a request of the second job is in flight (the first job was
\* finalized and reset before).
C2_Witness ==
    /\ app = "offset"
    /\ \E r \in inflight : r.kind \in {"adjust", "finalize"} /\ r.pid = 2

\* C3: in the offset variant, with no processing id (processingId null), a
\* nudge, an offset reset or a finalize sends no request and leaves every
\* state variable unchanged.
C3_NoIdNoEffect ==
    [][(app = "offset" /\ processingId = NoId
            /\ lastOp' \in {"nudge", "resetOffset", "finalize"})
          => UNCHANGED <<formVars, flowVars, envVars>>]_vars

\* C3 witness: the preview panel is displayed without a processing id (the
\* prepare response carried none) and a nudge was clicked.
C3_Witness ==
    /\ app = "offset" /\ PreviewShown /\ processingId = NoId
    /\ lastOp = "nudge"

\* the busy flag of a kind of request of the offset variant
BusyFlag(kind) ==
    CASE kind = "prepare" -> isProcessing
      [] kind = "adjust" -> isAdjusting
      [] OTHER -> isMerging

\* C4: in the offset variant, when a prepare-audio, adjust-offset or
\* finalize-mix request fails, the failure is caught at the call site: error
\* becomes a non-empty text (for a blob-encoded body, once the FileReader
\* started by the catch block has loaded), the busy flag of the request
\* returns to false, and the workflow mode is the one the request was sent in.
C4_FailureHandled ==
    [][(app = "offset" /\ mounted
            /\ lastOp' \in {"prepareFailed", "adjustFailed", "finalizeFailed"})
          => \A r \in Answered :
                /\ BusyFlag(r.kind)' = FALSE
                /\ \/ error' \notin {NoError, ""}
                   \/ \E rd \in readers' : rd.id = r.id
                /\ Mode' = r.mode]_vars

\* C5: no request is retried.  In every variant a process / prepare / adjust /
\* finalize request is sent only by a user action, one request per action; a
\* step that handles a failed request sends nothing and arms no timer; a
\* status request is sent only by the continuation of a successful process
\* request or by the 2-second timer, and a status check that fails or that
\* finds a status other than 'processing' leaves no status request and no
\* timer behind.
C5_NoRetry ==
    [][/\ \A r \in Sent : r.kind # "status" => lastOp' \in UserOps
       /\ \A r \in Sent : r.kind = "status" => lastOp' \in {"processOk", "timer"}
       /\ Cardinality(Sent) <= 1
       /\ lastOp' \in {"prepareFailed", "adjustFailed", "finalizeFailed",
                       "processFailed", "statusFailed"}
             => (Sent = {} /\ timers' \subseteq timers)
       /\ (lastOp' = "statusFailed" \/ (lastOp' = "statusOk" /\ timers' = timers))
             => (OfKind("status")' = {} /\ timers' = {})]_vars

\* C5 witness: in the polling variant a status check failed after at least one
\* 'processing' answer, and nothing is in flight or armed afterwards.
C5_Witness ==
    /\ app = "polling" /\ lastOp = "statusFailed" /\ reqCount >= 3
    /\ inflight = {} /\ timers = {}

\* the submit action is available to the user (offset and polling variants)
SubmitEnabled ==
    IF app = "polling" THEN ~PollSubmitDisabled ELSE FormShown /\ ~SubmitDisabled

\* both files are selected and no submission is in progress
ReadyToSubmit ==
    IF app = "polling"
    THEN vocalFile # NoFile /\ beatFile # NoFile /\ ~processing
    ELSE vocalAudio # NoFile /\ beatAudio # NoFile /\ ~isProcessing

\* C6 as stated: in the offset and the polling variant the submit action is
\* enabled exactly when both files are selected and no submission is in
\* progress.
C6_SubmitEnabledExactlyWhenReady ==
    (app \in {"offset", "polling"} /\ mounted) => (SubmitEnabled <=> ReadyToSubmit)

\* C6 as amended: the same while the upload form is displayed (always, in the
\* polling variant), where the submit action can then be taken; and a process /
\* prepare request is sent only by a submit taken with both files selected and
\* no submission in progress, and carries exactly these two files.
C6_SubmitWhileFormShown ==
    /\ [](((app = "polling" \/ (app = "offset" /\ FormShown)) /\ mounted)
            => /\ SubmitEnabled <=> ReadyToSubmit
               /\ (ReadyToSubmit /\ CanSend)
                     => ENABLED (ClickSubmit \/ PollClickSubmit))
    /\ [][\A r \in Sent :
            (app \in {"offset", "polling"} /\ r.kind \in {"prepare", "process"})
               => /\ lastOp' = "submit"
                  /\ ReadyToSubmit
                  /\ app = "offset" => (FormShown /\ r.vocal = vocalAudio
                                          /\ r.beat = beatAudio)
                  /\ app = "polling" => (r.vocal = vocalFile /\ r.beat = beatFile)
                  /\ r.vocal # NoFile /\ r.beat # NoFile]_vars

\* C6 witness: a prepare request is in flight and the vocal file selected now
\* is no longer the one the request carries.
C6_Witness ==
    /\ app = "offset"
    /\ \E r \in inflight : r.kind = "prepare" /\ r.vocal # vocalAudio

\* C7: in the offset variant the Final Mix panel is displayed if and only if
\* the most recent finalize-mix request of the job succeeded and no reset or
\* new submit has happened since.
C7_FinalPanelIffFinalized ==
    (app = "offset" /\ mounted) => (FinalShown <=> finalized)

\* C7 witness: the Final Mix panel is displayed after a successful finalize.
C7_Witness ==
    app = "offset" /\ mounted /\ FinalShown /\ finalized /\ lastOp = "finalizeOk"

\* C8: after New Mix the selected vocal and beat files, the processing id, the
\* offset, the preview URL and the processed-audio URL are all cleared, as in
\* a freshly mounted App.
C8_NewMixClearsAll ==
    [][(app = "offset" /\ lastOp' = "newMix")
          => /\ vocalAudio' = NoFile /\ beatAudio' = NoFile
             /\ processingId' = NoId /\ offsetBeats' = Zero
             /\ previewUrl' = NoPreview /\ processedAudio' = NoUrl]_vars

\* C9: in the offset variant every object URL created for the final mix is
\* revoked exactly once, no later than the teardown of the component, and
\* never while it is the current processedAudio of the mounted component.
C9_FinalUrlsRevokedOnce ==
    app = "offset"
        => /\ \A u \in DOMAIN objectUrls : objectUrls[u] <= 1
           /\ ~mounted => \A u \in DOMAIN objectUrls : objectUrls[u] = 1
           /\ (mounted /\ processedAudio # NoUrl) => objectUrls[processedAudio] = 0

\* C10: every object URL created by AudioUploader, and every object URL
\* created by the blob-download variants for the processed audio, is revoked
\* by the time the component is torn down.
C10_NoUrlOutlivesComponent ==
    (app \in {"polling", "blob", "ts"} /\ ~mounted)
        => /\ uploaderUrls = 0
           /\ \A u \in DOMAIN objectUrls : objectUrls[u] >= 1

\* the pending polling steps of a job: status requests in flight and timers
ChainOf(job) ==
    {r.id : r \in {x \in OfKind("status") : x.pid = job}}
        \cup {t.by : t \in {x \in timers : x.job = job}}

\* C11: in the polling variant the first status request of a job is sent by
\* the continuation of its successful process request; a further status
\* request of the job is sent only by the timer that a 'processing' answer to
\* the previous one has armed; the first answer that is 'completed', any
\* other status or a failure ends the polling of the job, and no status
\* request of a job whose polling has ended is ever sent.
C11_PollingChain ==
    [][app = "polling" =>
        /\ \A r \in Sent : r.kind = "status" =>
              /\ r.pid \notin pollEnded
              /\ \/ lastOp' = "processOk" /\ r.pid = jobs' /\ jobs' = jobs + 1
                 \/ /\ lastOp' = "timer"
                    /\ \E t \in timers \ timers' : t.job = r.pid
        /\ \A t \in timers' \ timers :
              /\ lastOp' = "statusOk"
              /\ \E r \in Answered :
                    r.kind = "status" /\ r.id = t.by /\ r.pid = t.job
        /\ \A r \in Answered :
              (r.kind = "status" /\ timers' = timers)
                  => (r.pid \in pollEnded' /\ ChainOf(r.pid)' = {})
        /\ \A j \in pollEnded' : ChainOf(j)' = {}]_vars

\* C11 witness: the polling of job 1 has ended and a status request of job 2
\* is in flight.
C11_Witness ==
    /\ app = "polling" /\ pollEnded = {1}
    /\ \E r \in inflight : r.kind = "status" /\ r.pid = 2

\* C12: in the TypeScript variant at most one process-audio request is in
\* flight in every reachable state, and no submit starts a request while
\* isProcessing is true.
C12_TsSingleRequest ==
    [][app = "ts" =>
        /\ Cardinality(inflight') <= 1
        /\ isProcessing => Sent = {}]_vars

\* x plus n quarter beats: n nudges in one direction
RECURSIVE Shift(_, _)
Shift(x, n) ==
    IF n = 0 THEN x
    ELSE IF n > 0 THEN Shift(AddQuarter(x, 1), n - 1)
    ELSE Shift(AddQuarter(x, -1), n + 1)

\* C13: in the offset variant an accepted nudge sets the offset to the
\* displayed offset plus one quarter beat in the chosen direction and sends
\* exactly that value; an accepted reset sends and sets 0; hence the offset
\* always equals the offset of the prepare response (or 0 after a reset) plus
\* the forward nudges minus the backward nudges accepted since, and a forward
\* nudge followed by a backward nudge restores the offset.
C13_NudgesAddUp ==
    /\ []((app = "offset" /\ mounted /\ isPreviewMode)
            => offsetBeats = Shift(nudgeBase, nudgeNet))
    /\ [][app = "offset" =>
            /\ (lastOp' = "nudge" /\ Sent # {})
                  => /\ nudgeNet' - nudgeNet \in {-1, 1}
                     /\ offsetBeats' = AddQuarter(offsetBeats, nudgeNet' - nudgeNet)
                     /\ \A r \in Sent : r.kind = "adjust" /\ r.offset = offsetBeats'
            /\ (lastOp' = "resetOffset" /\ Sent # {})
                  => /\ offsetBeats' = Zero
                     /\ \A r \in Sent : r.kind = "adjust" /\ r.offset = Zero]_vars

\* the optional metadata fields of the form and their current values
FieldNames == {"vocal_key", "beat_key", "vocal_bpm", "beat_bpm"}

FieldValue(name) ==
    CASE name = "vocal_key" -> vocalKey
      [] name = "beat_key" -> beatKey
      [] name = "vocal_bpm" -> vocalBpm
      [] OTHER -> beatBpm

\* C14: a prepare-audio request of the offset variant carries the two files
\* selected when it is submitted, and carries each of vocal_key, beat_key,
\* vocal_bpm, beat_bpm if and only if the form value is non-empty at that
\* moment, with that value and nothing else.
C14_PrepareCarriesForm ==
    [][\A r \in Sent :
          (app = "offset" /\ r.kind = "prepare")
              => /\ r.vocal = vocalAudio /\ r.vocal # NoFile
                 /\ r.beat = beatAudio /\ r.beat # NoFile
                 /\ \A n \in FieldNames :
                       (FieldValue(n) # "") <=> (<<n, FieldValue(n)>> \in r.fields)
                 /\ \A e \in r.fields :
                       e[1] \in FieldNames /\ e[2] = FieldValue(e[1])]_vars

\* C14 witness: a prepare request in flight carries a vocal key and a beat
\* BPM, and neither a beat key nor a vocal BPM.
C14_Witness ==
    /\ app = "offset"
    /\ \E r \in inflight :
          /\ r.kind = "prepare"
          /\ r.fields = {<<"vocal_key", "Am">>, <<"beat_bpm", "120">>}

\* the processing id, the preview URL and the offset are cleared
Cleared == processingId = NoId /\ previewUrl = NoPreview /\ offsetBeats = Zero

\* C15: in the offset variant the processing id, the preview URL and the
\* offset, once cleared by New Mix, stay cleared until the next prepare
\* response (no response to an earlier adjust-offset request changes them),
\* and the preview URL is always one of the job that processingId names.
C15_PreviewOfCurrentJob ==
    /\ []((app = "offset" /\ mounted /\ processingId # NoId /\ previewUrl # NoPreview)
            => previewUrl.job = processingId)
    /\ [][(app = "offset" /\ mounted /\ Cleared /\ lastOp' # "prepareOk")
            => Cleared']_vars

\* C16: in the polling variant, when responses and timers are scheduled
\* fairly and the server does not answer 'processing' for ever, a mounted App
\* that is processing eventually has processing false and status 'completed'
\* or 'error' (unless it is unmounted first); processing only ends with a
\* failed process request, a failed status request or a status answer other
\* than 'processing', and a 'processing' answer leaves the App processing.
C16_PollingEnds ==
    /\ (app = "polling" /\ mounted /\ processing)
          ~> (~mounted \/ (~processing /\ status \in {"completed", "error"}))
    /\ [][(app = "polling" /\ processing /\ ~processing')
            => \/ lastOp' \in {"processFailed", "statusFailed"}
               \/ lastOp' = "statusOk" /\ timers' = timers]_vars
    /\ [][(app = "polling" /\ processing /\ lastOp' = "statusOk"
              /\ timers' # timers)
            => (processing' /\ status' = "processing")]_vars

\* C16 witness: the App has stopped processing with status 'completed' after
\* at least one 'processing' answer.
C16_Witness ==
    /\ app = "polling" /\ mounted /\ ~processing /\ status = "completed"
    /\ lastOp = "statusOk" /\ reqCount >= 3 /\ pollEnded = {1}

\* C17: in the polling variant processing is true if and only if status is
\* 'processing', in every reachable state.
C17_ProcessingIffStatus ==
    app = "polling" => (processing <=> status = "processing")

\* C17 witness: a process request has failed: status 'error', not processing.
C17_Witness ==
    /\ app = "polling" /\ mounted /\ lastOp = "processFailed"
    /\ status = "error" /\ ~processing

\* C18: in the polling variant, whenever status is 'completed' the download
\* URL is not null and is the download URL of jobId, the job id returned by
\* the most recent successful process request.
C18_DownloadOfCurrentJob ==
    (app = "polling" /\ status = "completed")
        => /\ downloadUrl # NoUrl
           /\ downloadUrl = jobId
           /\ jobId = jobs

\* C18 witness: the second submission has completed.
C18_Witness ==
    /\ app = "polling" /\ status = "completed" /\ jobId = 2 /\ downloadUrl = 2

\* a file is dropped on, or removed from, one of the two AudioUploader widgets
UploaderChanges ==
    \/ \E f \in PollVocalFiles : PollHandleVocalUpload(f)
    \/ \E f \in PollBeatFiles : PollHandleBeatUpload(f)
    \/ PollRemoveVocal
    \/ PollRemoveBeat

\* C19: in the polling variant at most one process request, status request
\* or 2-second timer is pending at any time; while one is pending the mounted
\* App is processing; and while processing is true the submit button and both
\* AudioUploader widgets are disabled, so neither selected file changes.
C19_OneChainFilesFrozen ==
    /\ [](app = "polling"
            => /\ Cardinality(OfKind("process")) + Cardinality(OfKind("status"))
                      + Cardinality(timers) <= 1
               /\ (mounted /\ (inflight # {} \/ timers # {})) => processing
               /\ processing => ~ENABLED (PollClickSubmit \/ UploaderChanges))
    /\ [][(app = "polling" /\ processing)
            => (vocalFile' = vocalFile /\ beatFile' = beatFile)]_vars

\* C19 witness: the timer of the chain is pending while the App is processing
\* with both files selected.
C19_Witness ==
    /\ app = "polling" /\ mounted /\ processing /\ timers # {}
    /\ vocalFile # NoFile /\ beatFile # NoFile

\* C20: in the offset variant isPreviewMode implies a non-null processingId
\* and a non-null previewUrl; the upload form is shown only with processingId
\* null; and no two of the upload form, the preview panel and the Final Mix
\* panel are shown together.
C20_PreviewHasJob ==
    (app = "offset" /\ mounted)
        => /\ isPreviewMode => (processingId # NoId /\ previewUrl # NoPreview)
           /\ FormShown => processingId = NoId
           /\ ~(FormShown /\ PreviewShown)
           /\ ~(FormShown /\ FinalShown)
           /\ ~(PreviewShown /\ FinalShown)

\* {error && ...}: the error text is displayed (offset variant)
ErrorShown == error \notin {NoError, ""}

\* C21: in the offset variant no error text is displayed once an
\* adjust-offset or finalize-mix request has succeeded, and the error text and
\* the Final Mix panel are never displayed together.
C21_NoErrorAfterSuccess ==
    /\ []((app = "offset" /\ mounted) => ~(ErrorShown /\ FinalShown))
    /\ [][(app = "offset" /\ mounted /\ lastOp' \in {"adjustOk", "finalizeOk"})
            => ~ErrorShown']_vars

\* C22: in the offset variant, in preview mode with no adjust-offset request
\* in flight, the displayed offset is the offset the server last acknowledged
\* for the current job (the offset of the prepare response, or of the last
\* successful adjust-offset); in particular a failed adjust-offset request
\* leaves the displayed offset at the acknowledged value it had before.
C22_OffsetAcknowledged ==
    /\ []((app = "offset" /\ mounted /\ isPreviewMode /\ OfKind("adjust") = {})
            => offsetBeats = ackOffset)
    /\ [][(app = "offset" /\ mounted /\ isPreviewMode
              /\ lastOp' = "adjustFailed")
            => offsetBeats' = ackOffset]_vars

Spec == Init /\ [][Next]_vars

SpecForm == FormInit /\ [][FormNext]_vars

SpecPoll ==
    /\ PollInit /\ [][PollLiveNext]_vars
    /\ WF_vars(ProcessAnswered) /\ WF_vars(TimerFires) /\ SF_vars(StatusEnds)
=============================================================================
